---- MODULE Spec2Model ----
(***************************************************************************)
(* The HTTP gateway of mcp-snowflake-server                                *)
(* (src/src/mcp_snowflake_server/http_server.py): the JSON-RPC endpoint    *)
(* /mcp, the REST endpoints, and the lazy initialisation of the two        *)
(* globals db_client and write_detector.                                   *)
(*                                                                         *)
(* A text is a sequence of fragments (characters of an identifier, tokens  *)
(* of an SQL statement, or the literal pieces of a query template).  A     *)
(* JSON value is [t, v]: its Python type and its str() rendering as a      *)
(* text, which is what an f-string interpolates.                           *)
(*                                                                         *)
(* Every coroutine runs on one event loop, so the code between two awaits  *)
(* is one atomic step.  The only state the requests share is the pair of   *)
(* globals, written by init_db_client alone, which holds no await; the     *)
(* model therefore serves one request at a time, in steps cut at the       *)
(* awaits (request.json(), db_client.execute_query).                       *)
(*                                                                         *)
(* The sidecar proxy (src/proxy/proxy_server.py) is a process of its own,  *)
(* with variables of its own (p_pc, p_in, p_fwd, p_resp) and a             *)
(* specification of its own, ProxySpec.                                    *)
(***************************************************************************)
EXTENDS Integers, Sequences, FiniteSets, TLC

VARIABLES phase, db_client, write_detector, registry, session, pc, req, trace, resp,
          p_pc, p_in, p_fwd, p_resp

\* The gateway's variables and the sidecar proxy's.
gvars == <<phase, db_client, write_detector, registry, session, pc, req, trace, resp>>
pvars == <<p_pc, p_in, p_fwd, p_resp>>
vars == <<gvars, pvars>>

\* Bounds of the inputs.
MaxHeaders == 2
MaxIdLen == 2
MaxNameLen == 5
MaxSqlLen == 3

\* The fixed JSON-RPC error codes.
MethodNotFound == -32601
InternalError == -32603

----------------------------------------------------------------------------
\* Texts and values

Chars == {"a", "Z", "."}
SqlTokens == {"SELECT", "delete", ";", "t"}

Strs(A, n) == UNION {[1..k -> A] : k \in 0..n}

\* str.upper(), fragment by fragment.
UpperFragment(c) ==
  CASE c = "a" -> "A"
    [] c = "t" -> "T"
    [] c = "delete" -> "DELETE"
    [] OTHER -> c

RECURSIVE upper(_)
upper(s) == IF s = <<>> THEN <<>> ELSE <<UpperFragment(Head(s))>> \o upper(Tail(s))

\* str.split(sep): the list of the texts between the separators.
RECURSIVE split(_, _)
split(s, sep) ==
  IF \A i \in 1..Len(s) : s[i] # sep
  THEN <<s>>
  ELSE LET i == CHOOSE k \in 1..Len(s) : s[k] = sep /\ \A j \in 1..(k - 1) : s[j] # sep
       IN <<SubSeq(s, 1, i - 1)>> \o split(SubSeq(s, i + 1, Len(s)), sep)

StrVal(s) == [t |-> "str", v |-> s]
NoneVal == [t |-> "none", v |-> <<"None">>]
IntVal(n) == [t |-> "int", v |-> <<n>>]

\* Python truthiness: None, "" and 0 are false.
Truthy(x) ==
  CASE x.t = "none" -> FALSE
    [] x.t = "str" -> x.v # <<>>
    [] OTHER -> x.v # <<"0">>

PyType(x) == CASE x.t = "none" -> "NoneType" [] x.t = "str" -> "str" [] OTHER -> "int"

AttributeError(type, attr) == <<"'", type, "' object has no attribute '", attr, "'">>

NonStrings == {NoneVal, IntVal("0"), IntVal("7")}
IdentValues == NonStrings \cup {StrVal(s) : s \in Strs(Chars, MaxIdLen)}
TableValues == NonStrings \cup {StrVal(s) : s \in Strs(Chars, MaxNameLen)}
QueryValues == NonStrings \cup {StrVal(s) : s \in Strs(SqlTokens, MaxSqlLen)}

----------------------------------------------------------------------------
\* The classifier and the manager, which http_server.py imports.

ReadKeywords == {"SELECT", "SHOW", "DESCRIBE", "EXPLAIN"}

\* SQLWriteDetector.analyze_query(query)["contains_write"]: the text is split
\* on ";" and a statement is read-only only if its leading keyword, matched
\* case-insensitively, is a read keyword; anything else fails closed.
analyze_query(query) ==
  IF query.t # "str"
  THEN TRUE
  ELSE LET stmts == split(query.v, ";")
       IN \E i \in 1..Len(stmts) :
            stmts[i] # <<>> /\ UpperFragment(Head(stmts[i])) \notin ReadKeywords

\* What SnowflakeDB.execute_query raises.
DbErrors == {"ConnectionUnavailable", "ExecutionFailed"}

----------------------------------------------------------------------------
\* The events of one request, in the order they happen.

Ev(e, s, w) == [ev |-> e, sql |-> s, verdict |-> w]

\* The outcome of a handler up to its first await: it raises, it answers
\* (a REST 400), or it calls db_client.execute_query(sql).
Raise(m, evs) == [kind |-> "raise", msg |-> m, events |-> evs, sql |-> <<>>]
Reject(m) == [kind |-> "reject", msg |-> m, events |-> <<>>, sql |-> <<>>]
Exec(q, evs) ==
  [kind |-> "exec", msg |-> <<>>, events |-> evs \o <<Ev("execute", q, FALSE)>>, sql |-> q]

----------------------------------------------------------------------------
\* The registry.

ToolNames == {"list_databases", "list_schemas", "list_tables", "describe_table", "read_query"}

Tool(n, r) == [name |-> n, required |-> r]

MCP_TOOLS ==
  << Tool("list_databases", {}),
     Tool("list_schemas", {"database"}),
     Tool("list_tables", {"database", "schema"}),
     Tool("describe_table", {"table_name"}),
     Tool("read_query", {"query"}) >>

----------------------------------------------------------------------------
\* execute_mcp_tool, tool by tool, up to the await of db_client.execute_query.
\* arguments is [ok, a1, a2]: ok is false when "arguments" is not a mapping
\* (a JSON list), a1 and a2 are what arguments.get returns for the tool's
\* parameters (None for a missing key).

tool_list_databases(arguments) ==
  Exec(<<"SELECT DATABASE_NAME FROM INFORMATION_SCHEMA.DATABASES">>, <<>>)

tool_list_schemas(arguments) ==
  IF ~arguments.ok THEN Raise(AttributeError("list", "get"), <<>>)
  ELSE LET database == arguments.a1 IN
    IF ~Truthy(database)
    THEN Raise(<<"Missing required 'database' parameter">>, <<>>)
    ELSE IF database.t # "str"
    THEN Raise(AttributeError(PyType(database), "upper"), <<>>)
    ELSE Exec(<<"SELECT SCHEMA_NAME FROM ">> \o upper(database.v)
                \o <<".INFORMATION_SCHEMA.SCHEMATA">>, <<>>)

tool_list_tables(arguments) ==
  IF ~arguments.ok THEN Raise(AttributeError("list", "get"), <<>>)
  ELSE LET database == arguments.a1
           schema == arguments.a2 IN
    IF ~Truthy(database) \/ ~Truthy(schema)
    THEN Raise(<<"Missing required 'database' and 'schema' parameters">>, <<>>)
    ELSE IF schema.t # "str"
    THEN Raise(AttributeError(PyType(schema), "upper"), <<>>)
    ELSE Exec(<<"SELECT table_catalog, table_schema, table_name, comment FROM ">>
                \o database.v
                \o <<".information_schema.tables WHERE table_schema = '">>
                \o upper(schema.v) \o <<"'">>, <<>>)

tool_describe_table(arguments) ==
  IF ~arguments.ok THEN Raise(AttributeError("list", "get"), <<>>)
  ELSE LET table_name == arguments.a1 IN
    IF ~Truthy(table_name)
    THEN Raise(<<"Missing required 'table_name' parameter">>, <<>>)
    ELSE IF table_name.t # "str"
    THEN Raise(AttributeError(PyType(table_name), "split"), <<>>)
    ELSE LET split_identifier == split(table_name.v, ".") IN
      IF Len(split_identifier) < 3
      THEN Raise(<<"Table name must be fully qualified as 'database.schema.table'">>, <<>>)
      ELSE Exec(<<"SELECT column_name, column_default, is_nullable, data_type, comment FROM ">>
                  \o upper(split_identifier[1])
                  \o <<".information_schema.columns WHERE table_schema = '">>
                  \o upper(split_identifier[2])
                  \o <<"' AND table_name = '">>
                  \o upper(split_identifier[3]) \o <<"'">>, <<>>)

\* read_query without the gate: the query goes to the manager unclassified.
tool_read_query_ungated(arguments, wd) ==
  IF ~arguments.ok THEN Raise(AttributeError("list", "get"), <<>>)
  ELSE LET query == arguments.a1 IN
    IF ~Truthy(query)
    THEN Raise(<<"Missing required 'query' parameter">>, <<>>)
    ELSE Exec(query.v, <<>>)

tool_read_query(arguments, wd) ==
  IF ~arguments.ok THEN Raise(AttributeError("list", "get"), <<>>)
  ELSE LET query == arguments.a1 IN
    IF ~Truthy(query)
    THEN Raise(<<"Missing required 'query' parameter">>, <<>>)
    ELSE IF wd = "None"
    THEN Raise(AttributeError("NoneType", "analyze_query"), <<>>)
    ELSE IF analyze_query(query)
    THEN Raise(<<"Calls to read_query should not contain write operations">>,
               <<Ev("classify", query.v, TRUE)>>)
    ELSE Exec(query.v, <<Ev("classify", query.v, FALSE)>>)

execute_mcp_tool(tool_name, arguments, wd) ==
  CASE tool_name = "list_databases" -> tool_list_databases(arguments)
    [] tool_name = "list_schemas" -> tool_list_schemas(arguments)
    [] tool_name = "list_tables" -> tool_list_tables(arguments)
    [] tool_name = "describe_table" -> tool_describe_table(arguments)
    [] tool_name = "read_query" -> tool_read_query(arguments, wd)
    [] OTHER -> Raise(<<"Unknown tool: ", tool_name>>, <<>>)

----------------------------------------------------------------------------
\* Responses.  One record shape for all of them: envelope says whether the
\* body is a JSON-RPC envelope, has_result / has_error which members it has.

NoResp ==
  [status |-> 0, envelope |-> FALSE, jsonrpc |-> "", id |-> "null",
   has_result |-> FALSE, has_error |-> FALSE, code |-> 0, isError |-> FALSE,
   payload |-> "none", tools |-> <<>>, msg |-> <<>>]

\* response_data = {"jsonrpc": jsonrpc, "id": request_id, "result": result}
ResultEnvelope(r, payload, tools, isError, msg) ==
  [NoResp EXCEPT !.status = 200, !.envelope = TRUE, !.jsonrpc = r.jsonrpc, !.id = r.id,
                 !.has_result = TRUE, !.payload = payload, !.tools = tools,
                 !.isError = isError, !.msg = msg]

\* response_data = {"jsonrpc": jsonrpc, "id": request_id, "error": error}
ErrorEnvelope(r, code, msg) ==
  [NoResp EXCEPT !.status = 200, !.envelope = TRUE, !.jsonrpc = r.jsonrpc, !.id = r.id,
                 !.has_error = TRUE, !.code = code, !.payload = "error", !.msg = msg]

\* An internal failure reported under the method-not-found code.
InternalErrorMiscoded(msg) ==
  [NoResp EXCEPT !.status = 500, !.envelope = TRUE, !.jsonrpc = "2.0", !.id = "null",
                 !.has_error = TRUE, !.code = MethodNotFound, !.payload = "error",
                 !.msg = msg]

\* The except clause of mcp_endpoint: the id and the version of the request
\* are not used.
InternalErrorEnvelope(msg) ==
  [NoResp EXCEPT !.status = 500, !.envelope = TRUE, !.jsonrpc = "2.0", !.id = "null",
                 !.has_error = TRUE, !.code = InternalError, !.payload = "error",
                 !.msg = msg]

\* Response(status_code=204)
NoContent == [NoResp EXCEPT !.status = 204]

\* A handler's exception let through to the top-level error.
ToolErrorAsProtocolError(r, msg) == ErrorEnvelope(r, InternalError, <<"Error: ">> \o msg)

\* The except clause around execute_mcp_tool.
ToolErrorResult(r, msg) == ResultEnvelope(r, "content", <<>>, TRUE, <<"Error: ">> \o msg)

\* The result of a tool that returned.
ToolResult(r) == ResultEnvelope(r, "content", <<>>, FALSE, <<"json:", r.name>>)

\* A REST endpoint's JSONResponse.
RestResponse(status, payload, msg) ==
  [NoResp EXCEPT !.status = status, !.payload = payload, !.msg = msg]

----------------------------------------------------------------------------
\* Requests.  body: whether request.json() decodes ("malformed" raises) and to
\* a mapping ("nonobject": a JSON list); id "null" is an absent or null id;
\* method "None" an absent method; params_ok is false when "params" is not a
\* mapping (JSON null); name "None" an absent tool name.

Ids == {"null", "1"}
Versions == {"2.0", "1.0"}
KnownMethods == {"initialize", "tools/list", "tools/call", "notifications/initialized"}
Methods == KnownMethods \cup {"notifications/cancelled", "resources/list", "None"}
NameInputs == ToolNames \cup {"drop_table", "None"}

Request(route, body, jsonrpc, id, method, params_ok, name, args_ok, a1, a2) ==
  [route |-> route, body |-> body, jsonrpc |-> jsonrpc, id |-> id, method |-> method,
   params_ok |-> params_ok, name |-> name, args_ok |-> args_ok, a1 |-> a1, a2 |-> a2]

NoReq == Request("none", "ok", "2.0", "null", "None", TRUE, "None", TRUE, NoneVal, NoneVal)

ToolCall(jsonrpc, id, name, args_ok, a1, a2) ==
  Request("/mcp", "ok", jsonrpc, id, "tools/call", TRUE, name, args_ok, a1, a2)

\* The argument values tried for each tool.
FirstArgs(name) ==
  CASE name \in {"list_schemas", "list_tables"} -> IdentValues
    [] name = "describe_table" -> TableValues
    [] name = "read_query" -> QueryValues
    [] OTHER -> {NoneVal}

SecondArgs(name) == IF name = "list_tables" THEN IdentValues ELSE {NoneVal}

McpRequests ==
  {Request("/mcp", b, "2.0", "null", "None", TRUE, "None", TRUE, NoneVal, NoneVal) :
      b \in {"malformed", "nonobject"}}
  \cup {Request("/mcp", "ok", v, i, m, p, "None", TRUE, NoneVal, NoneVal) :
      v \in Versions, i \in Ids, m \in Methods, p \in BOOLEAN}
  \cup {ToolCall(v, i, n, FALSE, NoneVal, NoneVal) : v \in Versions, i \in Ids, n \in NameInputs}
  \cup UNION {{ToolCall(v, i, n, TRUE, x, y) :
                  v \in Versions, i \in Ids, x \in FirstArgs(n), y \in SecondArgs(n)} :
              n \in NameInputs}

\* Query parameters are strings or absent; a JSON body holds any value.
QueryParams(S) == {x \in S : x.t # "int"}

Rest(route, body, a1, a2) ==
  Request(route, body, "2.0", "null", "None", TRUE, "None", TRUE, a1, a2)

RestRequests ==
  {Rest(r, "ok", NoneVal, NoneVal) : r \in {"/health", "/api/databases"}}
  \cup {Rest("/api/query", b, NoneVal, NoneVal) : b \in {"malformed", "nonobject"}}
  \cup {Rest("/api/query", "ok", x, NoneVal) : x \in QueryValues}
  \cup {Rest("/api/schemas", "ok", x, NoneVal) : x \in QueryParams(IdentValues)}
  \cup {Rest("/api/tables", "ok", x, y) :
          x \in QueryParams(IdentValues), y \in QueryParams(IdentValues)}
  \cup {Rest("/api/table/describe", "ok", x, NoneVal) : x \in QueryParams(TableValues)}

----------------------------------------------------------------------------
\* init_db_client.  db and wd are the globals ("None" or "set"); outcome is
\* what the environment lets the call do.

InitOutcomes(db) ==
  IF db # "None"
  THEN {"return"}
  ELSE {"no_database", "no_schema", "constructor_raises", "connection_raises", "ok"}

init_db_client(db, wd, outcome) ==
  CASE outcome = "return" ->
         [db |-> db, wd |-> wd, raises |-> FALSE, msg |-> <<>>]
    [] outcome = "no_database" ->
         [db |-> db, wd |-> wd, raises |-> TRUE,
          msg |-> <<"SNOWFLAKE_DATABASE environment variable is required">>]
    [] outcome = "no_schema" ->
         [db |-> db, wd |-> wd, raises |-> TRUE,
          msg |-> <<"SNOWFLAKE_SCHEMA environment variable is required">>]
    [] outcome = "constructor_raises" ->
         [db |-> db, wd |-> wd, raises |-> TRUE, msg |-> <<"SnowflakeDB">>]
    [] outcome = "connection_raises" ->
         [db |-> "set", wd |-> wd, raises |-> TRUE, msg |-> <<"start_init_connection">>]
    [] OTHER ->
         [db |-> "set", wd |-> "set", raises |-> FALSE, msg |-> <<>>]

----------------------------------------------------------------------------
\* mcp_endpoint after request.json(): the dispatch on the method, up to the
\* response or to the await of db_client.execute_query.  A step is
\* [next, events, resp].

Step(next, events, r) == [next |-> next, events |-> events, resp |-> r]

\* The else branch forgotten: the envelope carries the unset result.
MethodNotFoundAsResult(r) == ResultEnvelope(r, "none", <<>>, FALSE, <<>>)

MethodNotFoundError(r) == ErrorEnvelope(r, MethodNotFound, <<"Method not found: ", r.method>>)

ToolsCall(r, wd) ==
  IF ~r.params_ok
  THEN Step("done", <<>>, InternalErrorEnvelope(AttributeError("NoneType", "get")))
  ELSE LET arguments == [ok |-> r.args_ok, a1 |-> r.a1, a2 |-> r.a2]
           plan == execute_mcp_tool(r.name, arguments, wd)
           events == <<Ev("handler", <<>>, FALSE)>> \o plan.events
       IN IF plan.kind = "raise"
          THEN Step("done", events, ToolErrorResult(r, plan.msg))
          ELSE Step("await_exec", events, NoResp)

\* The branches on the method.
dispatch(r, wd, tools) ==
  CASE r.method = "initialize" ->
         Step("done", <<>>, ResultEnvelope(r, "initialize", <<>>, FALSE, <<>>))
    [] r.method = "tools/list" ->
         Step("done", <<>>, ResultEnvelope(r, "tools", tools, FALSE, <<>>))
    [] r.method = "tools/call" -> ToolsCall(r, wd)
    [] r.method = "notifications/initialized" -> Step("done", <<>>, NoContent)
    [] OTHER -> Step("done", <<>>, MethodNotFoundError(r))

\* A dispatcher that refuses everything but initialize until an initialize
\* request has been answered.
mcp_endpoint_handshake(r, wd, tools) ==
  IF r.body = "malformed"
  THEN Step("done", <<>>, InternalErrorEnvelope(<<"JSONDecodeError">>))
  ELSE IF r.body = "nonobject"
  THEN Step("done", <<>>, InternalErrorEnvelope(AttributeError("list", "get")))
  ELSE IF ~session /\ r.method # "initialize"
  THEN Step("done", <<>>, ErrorEnvelope(r, -32002, <<"Server not initialized">>))
  ELSE dispatch(r, wd, tools)

\* data = await request.json(); data.get(...); the dispatch.
mcp_endpoint(r, wd, tools) ==
  IF r.body = "malformed"
  THEN Step("done", <<>>, InternalErrorEnvelope(<<"JSONDecodeError">>))
  ELSE IF r.body = "nonobject"
  THEN Step("done", <<>>, InternalErrorEnvelope(AttributeError("list", "get")))
  ELSE dispatch(r, wd, tools)

----------------------------------------------------------------------------
\* The REST endpoints, up to the response or to the await of
\* db_client.execute_query.  A 400 is returned, not raised.

execute_query_endpoint(r) ==
  IF r.body = "malformed" THEN Raise(<<"JSONDecodeError">>, <<>>)
  ELSE IF r.body = "nonobject" THEN Raise(AttributeError("list", "get"), <<>>)
  ELSE LET query == r.a1 IN
    IF ~Truthy(query) THEN Reject(<<"Missing 'query' parameter">>)
    ELSE Exec(query.v, <<>>)

list_databases_endpoint(r) ==
  Exec(<<"SELECT DATABASE_NAME FROM INFORMATION_SCHEMA.DATABASES">>, <<>>)

list_schemas_endpoint(r) ==
  LET database == r.a1 IN
    IF ~Truthy(database) THEN Reject(<<"Missing 'database' parameter">>)
    ELSE Exec(<<"SELECT SCHEMA_NAME FROM ">> \o upper(database.v)
                \o <<".INFORMATION_SCHEMA.SCHEMATA">>, <<>>)

list_tables_endpoint(r) ==
  LET database == r.a1
      schema == r.a2 IN
    IF ~Truthy(database) \/ ~Truthy(schema)
    THEN Reject(<<"Missing 'database' or 'schema' parameter">>)
    ELSE Exec(<<"SELECT table_catalog, table_schema, table_name, comment FROM ">>
                \o database.v
                \o <<".information_schema.tables WHERE table_schema = '">>
                \o upper(schema.v) \o <<"'">>, <<>>)

describe_table_endpoint(r) ==
  LET table_name == r.a1 IN
    IF ~Truthy(table_name)
    THEN Reject(<<"Missing 'table' parameter (format: database.schema.table)">>)
    ELSE LET split_identifier == split(table_name.v, ".") IN
      IF Len(split_identifier) < 3
      THEN Reject(<<"Table name must be fully qualified as 'database.schema.table'">>)
      ELSE Exec(<<"SELECT column_name, column_default, is_nullable, data_type, comment FROM ">>
                  \o upper(split_identifier[1])
                  \o <<".information_schema.columns WHERE table_schema = '">>
                  \o upper(split_identifier[2])
                  \o <<"' AND table_name = '">>
                  \o upper(split_identifier[3]) \o <<"'">>, <<>>)

\* routes: the handler of each REST route.
routes(r) ==
  CASE r.route = "/api/query" -> execute_query_endpoint(r)
    [] r.route = "/api/databases" -> list_databases_endpoint(r)
    [] r.route = "/api/schemas" -> list_schemas_endpoint(r)
    [] r.route = "/api/tables" -> list_tables_endpoint(r)
    [] OTHER -> describe_table_endpoint(r)

\* A REST handler's step: db_client.execute_query on an unset db_client
\* raises before anything is executed; every exception is a 500.
RestStep(r, db) ==
  LET plan == routes(r) IN
    CASE plan.kind = "reject" -> Step("done", <<>>, RestResponse(400, "error", plan.msg))
      [] plan.kind = "raise" -> Step("done", <<>>, RestResponse(500, "error", plan.msg))
      [] OTHER ->
           IF db = "None"
           THEN Step("done", <<>>,
                     RestResponse(500, "error", AttributeError("NoneType", "execute_query")))
           ELSE Step("await_exec", plan.events, NoResp)

health_check == RestResponse(200, "health", <<"healthy">>)

\* The proxy's response before it has one.
NoProxyResp == [status |-> 0, headers |-> <<>>, body |-> "none"]

----------------------------------------------------------------------------
\* The state machine.
\*   phase: "boot" before the application's startup hook, then "serving", or
\*          "exited" when the hook raised;
\*   db_client, write_detector: the globals, "None" or "set";
\*   registry: the list MCP_TOOLS;
\*   session: whether an initialize request has been answered;
\*   pc, req, trace, resp: the request being served, where its coroutine
\*          stands, its events so far and its response.

Init ==
  /\ phase = "boot"
  /\ db_client = "None"
  /\ write_detector = "None"
  /\ registry = MCP_TOOLS
  /\ session = FALSE
  /\ pc = "idle"
  /\ req = NoReq
  /\ trace = <<>>
  /\ resp = NoResp
  /\ p_pc = "idle"
  /\ p_in = <<>>
  /\ p_fwd = <<>>
  /\ p_resp = NoProxyResp

\* startup(), run by the server's lifespan: when it raises, the server exits.
startup ==
  /\ phase = "boot"
  /\ \E o \in InitOutcomes(db_client) :
       LET e == init_db_client(db_client, write_detector, o) IN
         /\ db_client' = e.db
         /\ write_detector' = e.wd
         /\ phase' = IF e.raises THEN "exited" ELSE "serving"
  /\ UNCHANGED <<registry, session, pc, req, trace, resp>>
  /\ UNCHANGED pvars

\* The application served without its lifespan events (app is a module
\* global any ASGI host can mount): the globals are still unset when the
\* first request comes, which is what mcp_endpoint's own init_db_client() is
\* for.
NoLifespan ==
  /\ phase = "boot"
  /\ phase' = "serving"
  /\ UNCHANGED <<db_client, write_detector, registry, session, pc, req, trace, resp>>
  /\ UNCHANGED pvars

\* POST /mcp, up to await request.json(): init_db_client().
McpReceive ==
  /\ phase = "serving"
  /\ pc = "idle"
  /\ \E r \in McpRequests, o \in InitOutcomes(db_client) :
       LET e == init_db_client(db_client, write_detector, o) IN
         /\ req' = r
         /\ db_client' = e.db
         /\ write_detector' = e.wd
         /\ IF e.raises
            THEN /\ pc' = "done"
                 /\ trace' = <<Ev("init_raise", <<>>, FALSE)>>
                 /\ resp' = InternalErrorEnvelope(e.msg)
            ELSE /\ pc' = "await_json"
                 /\ trace' = <<>>
                 /\ resp' = NoResp
  /\ UNCHANGED <<phase, registry, session>>
  /\ UNCHANGED pvars

\* A dispatch that drops from MCP_TOOLS the descriptor of a tool whose call
\* failed.
McpDispatchDropsFailedTool ==
  /\ pc = "await_json"
  /\ req.route = "/mcp"
  /\ LET d == mcp_endpoint(req, write_detector, registry) IN
       /\ pc' = d.next
       /\ trace' = trace \o d.events
       /\ resp' = d.resp
       /\ session' = (session \/ d.resp.payload = "initialize")
       /\ registry' = IF d.resp.isError
                      THEN SelectSeq(registry, LAMBDA t : t.name # req.name)
                      ELSE registry
  /\ UNCHANGED <<phase, db_client, write_detector, req>>
  /\ UNCHANGED pvars

\* POST /mcp, from request.json() to the response or to the await of
\* db_client.execute_query.
McpDispatch ==
  /\ pc = "await_json"
  /\ req.route = "/mcp"
  /\ LET d == mcp_endpoint(req, write_detector, registry) IN
       /\ pc' = d.next
       /\ trace' = trace \o d.events
       /\ resp' = d.resp
       /\ session' = (session \/ d.resp.payload = "initialize")
  /\ UNCHANGED <<phase, db_client, write_detector, registry, req>>
  /\ UNCHANGED pvars

\* A REST request, up to its first await: request.json() for POST /api/query,
\* db_client.execute_query for the GET routes.
RestReceive ==
  /\ phase = "serving"
  /\ pc = "idle"
  /\ \E r \in RestRequests :
       /\ req' = r
       /\ IF r.route = "/health"
          THEN pc' = "done" /\ trace' = <<>> /\ resp' = health_check
          ELSE IF r.route = "/api/query"
          THEN pc' = "await_json" /\ trace' = <<>> /\ resp' = NoResp
          ELSE LET d == RestStep(r, db_client) IN
                 pc' = d.next /\ trace' = d.events /\ resp' = d.resp
  /\ UNCHANGED <<phase, db_client, write_detector, registry, session>>
  /\ UNCHANGED pvars

\* POST /api/query, from request.json() on.
RestDecode ==
  /\ pc = "await_json"
  /\ req.route = "/api/query"
  /\ LET d == RestStep(req, db_client) IN
       pc' = d.next /\ trace' = trace \o d.events /\ resp' = d.resp
  /\ UNCHANGED <<phase, db_client, write_detector, registry, session, req>>
  /\ UNCHANGED pvars

\* db_client.execute_query returns (data, data_id) and the handler builds its
\* JSON: json.dumps (JSONResponse in a REST endpoint) raises TypeError on rows
\* that are not JSON-serializable.
ExecuteQueryReturns ==
  /\ pc = "await_exec"
  /\ \E serializable \in BOOLEAN :
       /\ pc' = "done"
       /\ trace' = trace \o <<Ev("returned", <<>>, FALSE)>>
                         \o (IF serializable THEN <<>>
                             ELSE <<Ev("dumps_raise", <<"TypeError">>, FALSE)>>)
       /\ resp' = CASE serializable /\ req.route = "/mcp" -> ToolResult(req)
                    [] serializable /\ req.route # "/mcp" ->
                         RestResponse(200, "data", <<"json:", req.route>>)
                    [] ~serializable /\ req.route = "/mcp" ->
                         ToolErrorResult(req, <<"TypeError">>)
                    [] OTHER -> RestResponse(500, "error", <<"TypeError">>)
  /\ UNCHANGED <<phase, db_client, write_detector, registry, session, req>>
  /\ UNCHANGED pvars

\* db_client.execute_query raises.
ExecuteQueryRaises ==
  /\ pc = "await_exec"
  /\ \E e \in DbErrors :
       /\ pc' = "done"
       /\ trace' = Append(trace, Ev("raised", <<e>>, FALSE))
       /\ resp' = IF req.route = "/mcp" THEN ToolErrorResult(req, <<e>>)
                  ELSE RestResponse(500, "error", <<e>>)
  /\ UNCHANGED <<phase, db_client, write_detector, registry, session, req>>
  /\ UNCHANGED pvars

\* The response is handed to the transport and the coroutine ends.
Respond ==
  /\ pc = "done"
  /\ pc' = "idle"
  /\ req' = NoReq
  /\ trace' = <<>>
  /\ resp' = NoResp
  /\ UNCHANGED <<phase, db_client, write_detector, registry, session>>
  /\ UNCHANGED pvars

Next ==
  \/ startup
  \/ NoLifespan
  \/ McpReceive
  \/ McpDispatch
  \/ RestReceive
  \/ RestDecode
  \/ ExecuteQueryReturns
  \/ ExecuteQueryRaises
  \/ Respond

Spec == Init /\ [][Next]_vars

----------------------------------------------------------------------------
\* The sidecar proxy, src/proxy/proxy_server.py.  A header list is a
\* sequence of [name, value]; a dict is a header list whose names are
\* distinct, in insertion order.

BEARER_TOKEN == "configured-token"
MCP_SERVER_URL == "localhost:8080"

Header(n, v) == [name |-> n, value |-> v]

\* The lower-cased header name.
LowerName(n) ==
  CASE n \in {"Authorization", "AUTHORIZATION"} -> "authorization"
    [] n = "Host" -> "host"
    [] n = "X-Trace" -> "x-trace"
    [] OTHER -> n

HeaderLists(H, n) == UNION {[1..k -> H] : k \in 0..n}

\* What a client sends: names in any letter case.
InboundHeaders ==
  HeaderLists({Header(n, v) :
                 n \in {"Authorization", "authorization", "Host", "X-Trace"},
                 v \in {<<"Bearer ", "inbound-token">>, <<"v">>}}, MaxHeaders)

\* request.headers: the server hands the names over lower-cased.
RECURSIVE request_headers(_)
request_headers(raw) ==
  IF raw = <<>> THEN <<>>
  ELSE <<Header(LowerName(Head(raw).name), Head(raw).value)>> \o request_headers(Tail(raw))

\* dict(headers): one item per name, holding the first value of the name.
RECURSIVE dict(_)
dict(hs) ==
  IF hs = <<>> THEN <<>>
  ELSE <<Head(hs)>> \o dict(SelectSeq(Tail(hs), LAMBDA h : h.name # Head(hs).name))

\* d.pop(key, None)
pop(d, key) == SelectSeq(d, LAMBDA h : h.name # key)

\* d[key] = value: keys are compared as they are written.
setitem(d, key, value) ==
  IF \E i \in DOMAIN d : d[i].name = key
  THEN [i \in DOMAIN d |-> IF d[i].name = key THEN Header(key, value) ELSE d[i]]
  ELSE Append(d, Header(key, value))

\* The headers proxy_handler gives to client.request.
proxy_headers(raw) ==
  setitem(pop(dict(request_headers(raw)), "host"),
          "Authorization", <<"Bearer ", BEARER_TOKEN>>)

\* What httpx puts on the wire: every item of the dict, and the Host of the
\* target.
forwarded(raw) == <<Header("Host", <<MCP_SERVER_URL>>)>> \o proxy_headers(raw)

\* The upstream's response headers, as dict(response.headers).
UpstreamHeaders ==
  {hs \in HeaderLists({Header(n, <<"v">>) :
                         n \in {"content-encoding", "content-length",
                                "transfer-encoding", "content-type"}}, MaxHeaders) :
     \A i, j \in DOMAIN hs : hs[i].name = hs[j].name => i = j}

response_headers(hs) ==
  pop(pop(pop(hs, "content-encoding"), "content-length"), "transfer-encoding")

\* proxy_handler up to the await of client.request.
ProxyReceive ==
  /\ p_pc = "idle"
  /\ \E raw \in InboundHeaders :
       /\ p_in' = raw
       /\ p_fwd' = forwarded(raw)
  /\ p_pc' = "await_upstream"
  /\ p_resp' = NoProxyResp
  /\ UNCHANGED gvars

\* The gateway answers: its response is returned without the three headers.
ProxyUpstreamResponds ==
  /\ p_pc = "await_upstream"
  /\ \E hs \in UpstreamHeaders, status \in {200, 204, 500} :
       p_resp' = [status |-> status, headers |-> response_headers(hs), body |-> "upstream"]
  /\ p_pc' = "done"
  /\ UNCHANGED <<p_in, p_fwd>>
  /\ UNCHANGED gvars

\* client.request raises: the except clause.
ProxyUpstreamFails ==
  /\ p_pc = "await_upstream"
  /\ p_resp' = [status |-> 500, headers |-> <<>>, body |-> "Proxy error"]
  /\ p_pc' = "done"
  /\ UNCHANGED <<p_in, p_fwd>>
  /\ UNCHANGED gvars

\* The response is handed to the transport and the coroutine ends.
ProxyRespond ==
  /\ p_pc = "done"
  /\ p_pc' = "idle"
  /\ p_in' = <<>>
  /\ p_fwd' = <<>>
  /\ p_resp' = NoProxyResp
  /\ UNCHANGED gvars

ProxyNext ==
  \/ ProxyReceive
  \/ ProxyUpstreamResponds
  \/ ProxyUpstreamFails
  \/ ProxyRespond

ProxySpec == Init /\ [][ProxyNext]_vars

----------------------------------------------------------------------------
\* What the properties read off the request being served.

IsMcp == req.route = "/mcp"
IsToolsCall == IsMcp /\ req.body = "ok" /\ req.method = "tools/call"
Has(e) == \E i \in DOMAIN trace : trace[i].ev = e
HandlerRan == Has("handler")
HandlerRaised == HandlerRan /\ (~Has("returned") \/ Has("dumps_raise"))
InitRaised == Has("init_raise")
NoExecute == ~Has("execute")

\* The execute event at i comes after a classification of the same text that
\* reported no write.
Gated(i) ==
  \E j \in 1..(i - 1) :
    /\ trace[j].ev = "classify"
    /\ trace[j].sql = trace[i].sql
    /\ trace[j].verdict = FALSE

\* A handler-level error: a success envelope whose result signals the failure.
HandlerLevelError ==
  /\ resp.envelope
  /\ resp.has_result
  /\ ~resp.has_error
  /\ resp.isError
  /\ Len(resp.msg) > 1
  /\ resp.msg[1] = "Error: "

----------------------------------------------------------------------------
\* C1: a tools/call of read_query with a non-empty query consults the
\* classifier before the manager; when the classifier reports a write the
\* call ends in a handler-level error and nothing is executed; a text reaches
\* db_client.execute_query only after the classifier reported no write for
\* that same text.
C1_ReadQueryGated ==
  (IsToolsCall /\ req.name = "read_query") =>
    /\ \A i \in DOMAIN trace :
         trace[i].ev = "execute" => (trace[i].sql = req.a1.v /\ Gated(i))
    /\ (\E j \in DOMAIN trace : trace[j].ev = "classify" /\ trace[j].verdict)
         => (NoExecute /\ pc = "done" /\ HandlerLevelError)
    /\ (HandlerRan /\ req.args_ok /\ Truthy(req.a1) /\ write_detector = "set")
         => (trace[2].ev = "classify" /\ trace[2].sql = req.a1.v)

\* A read_query with a mutating statement has been rejected.
C1_Witness ==
  /\ pc = "done"
  /\ IsToolsCall
  /\ req.name = "read_query"
  /\ \E j \in DOMAIN trace : trace[j].ev = "classify" /\ trace[j].verdict
  /\ resp.isError

----------------------------------------------------------------------------
C2_Answered ==
  (pc = "done" /\ IsMcp /\ req.body = "ok" /\ ~InitRaised) =>
    /\ req.method = "tools/list" =>
         (resp.has_result /\ ~resp.has_error /\ resp.payload = "tools"
            /\ resp.tools = MCP_TOOLS)
    /\ (req.method = "tools/call" /\ req.params_ok) =>
         (HandlerRan /\ resp.has_result /\ ~resp.has_error)

----------------------------------------------------------------------------
\* C3: every error raised by a tool handler during tools/call comes back as
\* a success envelope: a result with isError = true and a readable message,
\* and no top-level error.
C3_HandlerErrorsWrapped ==
  (pc = "done" /\ IsMcp /\ HandlerRaised) =>
    (HandlerLevelError /\ resp.status = 200 /\ resp.id = req.id)

\* read_query with "delete t" has been answered with a policy violation.
C3_Witness ==
  /\ pc = "done"
  /\ IsToolsCall
  /\ req.name = "read_query"
  /\ req.a1 = StrVal(<<"delete", "t">>)
  /\ resp.has_result
  /\ resp.msg = <<"Error: ", "Calls to read_query should not contain write operations">>

----------------------------------------------------------------------------
\* C4 as stated: a request of the notifications/* class, recognized or not,
\* is acknowledged with an empty success response and never with an error.
Notifications == {"notifications/initialized", "notifications/cancelled"}

C4_NotificationsAcknowledged ==
  (pc = "done" /\ IsMcp /\ req.body = "ok" /\ ~InitRaised /\ req.method \in Notifications)
    => (resp.status = 204 /\ ~resp.has_result /\ ~resp.has_error)

----------------------------------------------------------------------------
\* C5 as stated: a failure reported by db_client.execute_query while a tool
\* is served yields a top-level error with the internal-error code.
C5_ManagerFailureTopLevel ==
  (pc = "done" /\ IsMcp /\ Has("raised")) =>
    (resp.has_error /\ ~resp.has_result /\ resp.code = InternalError)

\* The failures outside the tool handler: init_db_client raising, a body that
\* does not decode to a mapping, params that is not a mapping.
FailedOutsideHandler ==
  \/ InitRaised
  \/ req.body # "ok"
  \/ (req.method = "tools/call" /\ ~req.params_ok)

\* C5 as amended: the failures outside the tool handler yield a top-level
\* error with the fixed code -32603 and the underlying message (status 500,
\* id null), and nothing else does; a failure reported by
\* db_client.execute_query while a tool is served is returned as a tool
\* failure, a result with isError = true and the message, with no top-level
\* error.
C5_InternalErrors ==
  (pc = "done" /\ IsMcp) =>
    /\ FailedOutsideHandler =>
         (resp.envelope /\ resp.has_error /\ ~resp.has_result
            /\ resp.code = InternalError /\ resp.status = 500
            /\ resp.msg # <<>> /\ resp.id = "null")
    /\ resp.code = InternalError => (FailedOutsideHandler /\ ~HandlerRan)
    /\ Has("raised") =>
         (HandlerLevelError /\ resp.msg = <<"Error: ">> \o trace[Len(trace)].sql)

\* The manager has failed under a tool and the failure came back in a result.
C5_Witness ==
  /\ pc = "done"
  /\ IsToolsCall
  /\ Has("raised")
  /\ resp.isError
  /\ resp.msg = <<"Error: ", "ConnectionUnavailable">>

----------------------------------------------------------------------------
\* C6 as stated: a request whose method is not an accepted one yields a
\* top-level error with the method-not-found code and no result, runs no tool
\* handler and executes nothing.
C6_UnknownMethodNotFound ==
  (pc = "done" /\ IsMcp /\ req.body = "ok" /\ req.method \notin KnownMethods) =>
    /\ resp.has_error
    /\ ~resp.has_result
    /\ resp.code = MethodNotFound
    /\ ~HandlerRan
    /\ NoExecute

\* C6 as amended: such a request yields a top-level error and no result, runs
\* no tool handler and executes nothing; the code is method-not-found
\* (-32601) unless init_db_client raised for the request, and then it is
\* internal-error (-32603).
C6_UnknownMethodError ==
  (pc = "done" /\ IsMcp /\ req.body = "ok" /\ req.method \notin KnownMethods) =>
    /\ resp.envelope
    /\ resp.has_error
    /\ ~resp.has_result
    /\ resp.code = IF InitRaised THEN InternalError ELSE MethodNotFound
    /\ ~InitRaised => (resp.id = req.id /\ resp.msg = <<"Method not found: ", req.method>>)
    /\ ~HandlerRan
    /\ NoExecute

\* resources/list has been answered with method-not-found.
C6_Witness ==
  /\ pc = "done"
  /\ IsMcp
  /\ req.method = "resources/list"
  /\ resp.has_error
  /\ resp.code = MethodNotFound

----------------------------------------------------------------------------
\* The value a tools/call gives to a parameter of the tool.
Argument(r, param) == IF param = "schema" THEN r.a2 ELSE r.a1

Required(tools, name) ==
  UNION {tools[i].required : i \in {k \in DOMAIN tools : tools[k].name = name}}

\* C7 as stated: a tools/call in which a required argument is missing or is
\* not a string is rejected with a handler-level error and
\* db_client.execute_query is never called for it.
C7_BadArgumentsRejected ==
  (IsToolsCall /\ ~InitRaised /\ req.params_ok /\ req.args_ok /\ req.name \in ToolNames
     /\ \E p \in Required(registry, req.name) : Argument(req, p).t # "str")
    => /\ NoExecute
       /\ pc = "done" => HandlerLevelError

----------------------------------------------------------------------------
\* C8 as stated: each request that is not a notification gets one well-formed
\* envelope whose id is the id of the request and which holds exactly one of
\* result and error.
C8_EnvelopeEchoesId ==
  (pc = "done" /\ IsMcp /\ req.body = "ok" /\ ~InitRaised /\ req.method \notin Notifications)
    => /\ resp.envelope
       /\ resp.id = req.id
       /\ resp.has_result # resp.has_error

----------------------------------------------------------------------------
\* C9 as stated: on the routes that hand caller-supplied SQL to
\* db_client.execute_query (tools/call read_query and POST /api/query), a text
\* is executed only after the classifier reported no write for it.
C9_RawSqlGated ==
  ((IsToolsCall /\ req.name = "read_query") \/ req.route = "/api/query") =>
    \A i \in DOMAIN trace : trace[i].ev = "execute" => Gated(i)

----------------------------------------------------------------------------
\* The fixed template of each non-gated tool with every caller-supplied
\* fragment upper-cased.
UpperCasedTemplate(name, a1, a2) ==
  CASE name = "list_databases" ->
         <<"SELECT DATABASE_NAME FROM INFORMATION_SCHEMA.DATABASES">>
    [] name = "list_schemas" ->
         <<"SELECT SCHEMA_NAME FROM ">> \o upper(a1.v) \o <<".INFORMATION_SCHEMA.SCHEMATA">>
    [] name = "list_tables" ->
         <<"SELECT table_catalog, table_schema, table_name, comment FROM ">>
           \o upper(a1.v)
           \o <<".information_schema.tables WHERE table_schema = '">>
           \o upper(a2.v) \o <<"'">>
    [] OTHER ->
         LET parts == split(a1.v, ".") IN
           <<"SELECT column_name, column_default, is_nullable, data_type, comment FROM ">>
             \o upper(parts[1])
             \o <<".information_schema.columns WHERE table_schema = '">>
             \o upper(parts[2])
             \o <<"' AND table_name = '">>
             \o upper(parts[3]) \o <<"'">>

\* C10 as stated: the SQL a non-gated tool sends to db_client.execute_query
\* is its fixed template with every caller-supplied fragment upper-cased.
C10_FragmentsUpperCased ==
  (IsToolsCall /\ req.name \in ToolNames \ {"read_query"}) =>
    \A i \in DOMAIN trace :
      trace[i].ev = "execute" => trace[i].sql = UpperCasedTemplate(req.name, req.a1, req.a2)

----------------------------------------------------------------------------
\* C11: in every reachable state the registry is the registered descriptor
\* set (list_databases, list_schemas, list_tables, describe_table,
\* read_query), whatever requests were served before, failing tools/call
\* requests included; a tools/list that is answered is answered with exactly
\* that set.
C11_RegistryFixed ==
  /\ registry = MCP_TOOLS
  /\ {registry[i].name : i \in DOMAIN registry} = ToolNames
  /\ resp.payload = "tools" => resp.tools = MCP_TOOLS
  /\ (pc = "done" /\ IsMcp /\ req.body = "ok" /\ ~InitRaised /\ req.method = "tools/list")
       => (resp.has_result /\ resp.payload = "tools" /\ resp.tools = MCP_TOOLS)

\* tools/list has been answered with the five descriptors after an earlier
\* request (an initialize) was served.
C11_Witness ==
  /\ pc = "done"
  /\ session
  /\ IsMcp
  /\ req.method = "tools/list"
  /\ resp.payload = "tools"
  /\ Len(resp.tools) = 5
  /\ {resp.tools[i].name : i \in DOMAIN resp.tools} = ToolNames

----------------------------------------------------------------------------
\* C13 as stated: while requests are served the two globals are initialised
\* together: db_client is set if and only if write_detector is set.  (That a
\* set db_client is never reassigned holds: init_db_client then returns at
\* once.)
C13_GlobalsTogether ==
  phase = "serving" => ((db_client = "set") <=> (write_detector = "set"))

\* The positions of the Authorization headers of a header list, the name in
\* any letter case.
AuthorizationHeaders(hs) == {i \in DOMAIN hs : LowerName(hs[i].name) = "authorization"}

\* C12 as stated: every request the sidecar proxy forwards carries exactly
\* one Authorization header, equal to "Bearer <configured token>", whatever
\* the inbound request carried, and does not carry the inbound Host header.
\* (It fails for an inbound request that carries an authorization header:
\* the inbound item, keyed "authorization", is forwarded next to the item
\* keyed "Authorization".  The Host part holds.)
C12_OneConfiguredAuthorization ==
  p_pc \in {"await_upstream", "done"} =>
    /\ Cardinality(AuthorizationHeaders(p_fwd)) = 1
    /\ \A i \in AuthorizationHeaders(p_fwd) : p_fwd[i].value = <<"Bearer ", BEARER_TOKEN>>
    /\ \A i \in DOMAIN p_fwd :
         LowerName(p_fwd[i].name) = "host" => p_fwd[i].value = <<MCP_SERVER_URL>>


====
